---- MODULE Spec2Model ----
(***************************************************************************)
(* GrustnoPy: the Grustnogram API client (grustnopy/core.py), its entity   *)
(* types (grustnopy/types.py) and its error taxonomy (grustnopy/errors.py).*)
(*                                                                         *)
(* The client holds one session token.  Every call is a coroutine that     *)
(* builds a request on the event loop, suspends while the request runs in  *)
(* an executor thread, and resumes on the event loop with the parsed JSON  *)
(* envelope.  The model keeps, per caller, the call in progress, its       *)
(* position, and the trace of what the call has put on and taken off the   *)
(* wire.                                                                    *)
(***************************************************************************)
EXTENDS Integers, Sequences, FiniteSets, TLC

VARIABLES
    token,      \* GrustnogramClient._token
    pc,         \* pc[c]: position of caller c's coroutine
    call,       \* call[c]: the operation caller c runs, with its arguments
    trace,      \* trace[c]: requests sent, responses received and
                \* code_handler invocations of the call, in order
    outcome,    \* outcome[c]: what the call returned or raised
    ncalls      \* number of calls started so far

vars == <<token, pc, call, trace, outcome, ncalls>>

----------------------------------------------------------------------------
\* Bounds of the model

MaxErrLen == 2      \* longest error-code list a response carries
MaxCalls == 2       \* calls started in one behaviour
NumCallers == 2     \* coroutines using one client concurrently
MaxComments == 2    \* longest comment list a response carries

Callers == 1..NumCallers

----------------------------------------------------------------------------
\* Input values

None == "None"
Tokens == {"tok-abc", "tok-xyz"}
PhoneKeys == {"pk-1", "pk-2"}
HandlerCodes == {"1234", "0000"}
Ids == {42, 7}
Logins == {"alice"}
Passwords == {"secret"}
Nicknames == {"alice"}
Emails == {"alice@example.org"}
Phones == {"+70000000000"}
Texts == {"sad"}
ComplaintTypes == {1, 2, 3}
ComplaintTexts == {None, "sad"}
Timestamps == {1650000000}

\* error codes a server response may carry
ErrCodes == {0, 100, 101, 102, 103, 500}

RECURSIVE SeqsUpTo(_, _)
SeqsUpTo(S, n) ==
    IF n = 0 THEN {<<>>}
    ELSE LET shorter == SeqsUpTo(S, n - 1)
         IN  shorter \cup {Append(s, x) : s \in {t \in shorter : Len(t) = n - 1}, x \in S}

ErrLists == SeqsUpTo(ErrCodes, MaxErrLen)

----------------------------------------------------------------------------
\* JSON values as Python holds them, tagged with their type.  A dict is the
\* sequence of its <<key, value>> items in insertion order, which is the
\* order Response.json() read them in and the order json.dumps writes them.

PyStr(s) == [t |-> "str", v |-> s]
PyInt(n) == [t |-> "int", v |-> n]
PyNone == [t |-> "null", v |-> "None"]
PyList(items) == [t |-> "list", v |-> items]
PyDict(items) == [t |-> "dict", v |-> items]

\* key in d
Has(d, key) == \E i \in 1..Len(d.v) : d.v[i][1] = key
\* d[key], for a key that is in d
Get(d, key) == d.v[CHOOSE i \in 1..Len(d.v) : d.v[i][1] = key][2]

\* json.dumps, as the sequence of JSON tokens it writes (whitespace, and so
\* indent=4, left out).  Every string of the model is plain ASCII without
\* quotes, backslashes or control characters, which json.dumps writes
\* between quotes as it is.
JStr(s) == "\"" \o s \o "\""
JInt(n) == ToString(n)
JNull == "null"

RECURSIVE JoinComma(_)
JoinComma(parts) ==
    IF parts = <<>> THEN <<>>
    ELSE IF Len(parts) = 1 THEN parts[1]
    ELSE parts[1] \o <<",">> \o JoinComma(Tail(parts))

RECURSIVE Dumps(_)
Dumps(x) ==
    CASE x.t = "str"  -> <<JStr(x.v)>>
      [] x.t = "int"  -> <<JInt(x.v)>>
      [] x.t = "null" -> <<JNull>>
      [] x.t = "list" ->
            <<"[">> \o JoinComma([i \in 1..Len(x.v) |-> Dumps(x.v[i])]) \o <<"]">>
      [] x.t = "dict" ->
            <<"{">> \o JoinComma([i \in 1..Len(x.v) |->
                                    <<JStr(x.v[i][1]), ":">> \o Dumps(x.v[i][2])])
                    \o <<"}">>

----------------------------------------------------------------------------
\* Response envelopes: the dict Response.json() returns

\* the error-code list
ErrVal(err) == PyList([i \in 1..Len(err) |-> PyInt(err[i])])

\* envelopes with err before data, with one of the two keys, or with neither
EnvelopesOver(errs, datas) ==
    {PyDict(<<<<"err", ErrVal(e)>>, <<"data", d>>>>) : e \in errs, d \in datas}
        \cup {PyDict(<<<<"err", ErrVal(e)>>>>) : e \in errs}
        \cup {PyDict(<<<<"data", d>>>>) : d \in datas}
        \cup {PyDict(<<<<"status", PyStr("ok")>>>>)}

\* the same, and the envelopes that list data before err
EnvelopesAnyOrder(errs, datas) ==
    EnvelopesOver(errs, datas)
        \cup {PyDict(<<<<"data", d>>, <<"err", ErrVal(e)>>>>) : e \in errs, d \in datas}

SessionData == {PyDict(<<<<"access_token", PyStr(tok)>>>>) : tok \in Tokens}
UserData == {PyDict(<<<<"phone_key", PyStr(k)>>>>) : k \in PhoneKeys}
CommentData ==
    {PyDict(<<<<"id", PyInt(i)>>, <<"nickname", PyStr(n)>>,
              <<"comment", PyStr(txt)>>, <<"created_at", PyInt(ts)>>>>) :
        i \in Ids, n \in Nicknames, txt \in Texts, ts \in Timestamps}
OtherData == {PyDict(<<<<"message", PyStr("none")>>>>)}
\* payloads of two keys, in both orders
TwoKeyData ==
    {PyDict(<<<<"message", PyStr("none")>>, <<"access_token", PyStr("tok-abc")>>>>),
     PyDict(<<<<"access_token", PyStr("tok-abc")>>, <<"message", PyStr("none")>>>>)}

----------------------------------------------------------------------------
\* Exceptions and return values

NoError == [type |-> "none", message |-> <<>>]
Raise(type, message) == [type |-> type, message |-> message]

\* variant: the membership checks in the opposite order
ValidatePriorityReversed(result) ==
    IF ~Has(result, "err") \/ Get(result, "err").v = <<>> THEN NoError
    ELSE LET err == Get(result, "err").v
             has(code) == \E i \in 1..Len(err) : err[i].v = code
         IN  IF has(103) THEN Raise("BadCredentialsError", <<"Specified password is invalid">>)
             ELSE IF has(102) THEN Raise("UserNotFoundError", <<"Specified user not found">>)
             ELSE IF has(101) THEN Raise("LoginExistsError", <<"Specified login already exists">>)
             ELSE IF has(100) THEN Raise("EmailExistsError", <<"Specified email already exists">>)
             ELSE IF \E i \in 1..Len(err) : err[i].v # 0
                  THEN Raise("UnknownError", Dumps(result))
             ELSE NoError

\* variant: UnknownError built from result["err"] instead of result
ValidateUnknownErrOnly(result) ==
    IF ~Has(result, "err") \/ Get(result, "err").v = <<>> THEN NoError
    ELSE LET err == Get(result, "err").v
             has(code) == \E i \in 1..Len(err) : err[i].v = code
         IN  IF has(100) THEN Raise("EmailExistsError", <<"Specified email already exists">>)
             ELSE IF has(101) THEN Raise("LoginExistsError", <<"Specified login already exists">>)
             ELSE IF has(102) THEN Raise("UserNotFoundError", <<"Specified user not found">>)
             ELSE IF has(103) THEN Raise("BadCredentialsError", <<"Specified password is invalid">>)
             ELSE IF \E i \in 1..Len(err) : err[i].v # 0
                  THEN Raise("UnknownError", Dumps(Get(result, "err")))
             ELSE NoError

\* the body of the coroutine GrustnogramClient._validate_result
ValidateResult(result) ==
    IF ~Has(result, "err") \/ Get(result, "err").v = <<>> THEN NoError
    ELSE LET err == Get(result, "err").v
             has(code) == \E i \in 1..Len(err) : err[i].v = code
         IN  IF has(100) THEN Raise("EmailExistsError", <<"Specified email already exists">>)
             ELSE IF has(101) THEN Raise("LoginExistsError", <<"Specified login already exists">>)
             ELSE IF has(102) THEN Raise("UserNotFoundError", <<"Specified user not found">>)
             ELSE IF has(103) THEN Raise("BadCredentialsError", <<"Specified password is invalid">>)
             ELSE IF \E i \in 1..Len(err) : err[i].v # 0
                  THEN Raise("UnknownError", Dumps(result))
             ELSE NoError

RetNone == [kind |-> "None", items |-> <<>>]
RetTrue == [kind |-> "True", items |-> <<>>]
Pending == [raised |-> NoError, ret |-> RetNone]
Returned(ret) == [raised |-> NoError, ret |-> ret]
Raised(exc) == [raised |-> exc, ret |-> RetNone]

NoCall == [op |-> "none"]

----------------------------------------------------------------------------
\* Awaiting _validate_result on its own

ValidateEnvelopes ==
    EnvelopesAnyOrder(ErrLists, SessionData \cup OtherData \cup TwoKeyData)

InitValidate ==
    /\ token = None
    /\ \E r \in ValidateEnvelopes :
           call = [c \in Callers |->
                      IF c = 1 THEN [op |-> "_validate_result", result |-> r] ELSE NoCall]
    /\ pc = [c \in Callers |-> IF c = 1 THEN "start" ELSE "idle"]
    /\ trace = [c \in Callers |-> <<>>]
    /\ outcome = [c \in Callers |-> Pending]
    /\ ncalls = 1

AwaitValidate(c) ==
    /\ pc[c] = "start"
    /\ call[c].op = "_validate_result"
    /\ LET exc == ValidateResult(call[c].result)
       IN  outcome' = [outcome EXCEPT ![c] =
                          IF exc = NoError THEN Returned(RetNone) ELSE Raised(exc)]
    /\ pc' = [pc EXCEPT ![c] = "done"]
    /\ UNCHANGED <<token, call, trace, ncalls>>

NextValidate == \E c \in Callers : AwaitValidate(c)

SpecValidate == InitValidate /\ [][NextValidate]_vars

----------------------------------------------------------------------------
\* Requests

Api == "https://api.grustnogram.ru"

BaseHeaders ==
    [accept |-> "application/json",
     content_type |-> "application/x-www-form-urlencoded",
     user_agent |-> "Python SDK"]

\* the headers of an authenticated request: "access-token": self._token
AuthHeaders(tok) ==
    [accept |-> "application/json",
     content_type |-> "application/x-www-form-urlencoded",
     user_agent |-> "Python SDK",
     access_token |-> tok]

NoBody == <<>>
Request(method, url, headers, data) ==
    [method |-> method, url |-> url, headers |-> headers, data |-> data]

ReqEv(req) == [ev |-> "request", req |-> req]
RespEv(result) == [ev |-> "response", result |-> result]
CodeEv(code) == [ev |-> "code_handler", code |-> code]

Last(s) == s[Len(s)]
Requests(c) == SelectSeq(trace[c], LAMBDA e : e.ev = "request")
LastUrl(c) == Last(Requests(c)).req.url
\* the local variable `result` after the await
Result(c) == Last(trace[c]).result

\* `self._validate_result(result)` as the operations write it, without await:
\* the coroutine object is created and dropped, and its body never runs
CallValidateResult(result) == NoError

\* result["data"][key] for every key of keys: the KeyError it raises, if any
Lookup(result, keys) ==
    IF ~Has(result, "data") THEN Raise("KeyError", <<"data">>)
    ELSE LET data == Get(result, "data") IN
         IF \E i \in 1..Len(keys) : ~Has(data, keys[i])
         THEN Raise("KeyError",
                    <<keys[CHOOSE i \in 1..Len(keys) :
                            /\ ~Has(data, keys[i])
                            /\ \A j \in 1..(i - 1) : Has(data, keys[j])]>>)
         ELSE NoError

----------------------------------------------------------------------------
\* Steps shared by the operations

Free(c) == pc[c] \in {"idle", "done"} /\ ncalls < MaxCalls

\* the coroutine starts: the request is built on the event loop and handed
\* to the executor (run_sync), and the coroutine suspends
Send(c, callrec, req) ==
    /\ call' = [call EXCEPT ![c] = callrec]
    /\ trace' = [trace EXCEPT ![c] = <<ReqEv(req)>>]
    /\ pc' = [pc EXCEPT ![c] = "wait"]
    /\ outcome' = [outcome EXCEPT ![c] = Pending]
    /\ ncalls' = ncalls + 1
    /\ UNCHANGED token

\* a later request of the same call
SendNext(c, events) ==
    /\ trace' = [trace EXCEPT ![c] = @ \o events]
    /\ pc' = [pc EXCEPT ![c] = "wait"]
    /\ UNCHANGED <<token, call, outcome, ncalls>>

\* the call ends: it returns ret or raises exc
Finish(c, out) ==
    /\ outcome' = [outcome EXCEPT ![c] = out]
    /\ pc' = [pc EXCEPT ![c] = "done"]
    /\ UNCHANGED <<call, trace, ncalls>>

Resumes(c, op) == pc[c] = "got" /\ call[c].op = op

----------------------------------------------------------------------------
\* The server: the envelope of the response to the request in flight

RespErrs == SeqsUpTo(ErrCodes, 1)

CommentLists == {PyList(l) : l \in SeqsUpTo(CommentData, MaxComments)}

DataFor(c) ==
    LET url == LastUrl(c) IN
    IF url \in {Api \o "/sessions", Api \o "/phoneactivate"} THEN SessionData \cup OtherData
    ELSE IF url = Api \o "/users" THEN UserData \cup OtherData
    ELSE IF call[c].op = "comment_post" THEN CommentData \cup OtherData
    ELSE IF call[c].op = "get_comments" THEN CommentLists
    ELSE OtherData

\* every envelope the model's server may send to caller c
AnyEnvelope(c) == EnvelopesAnyOrder(RespErrs, DataFor(c))

Respond(c, envelopes) ==
    /\ pc[c] = "wait"
    /\ \E r \in envelopes :
           trace' = [trace EXCEPT ![c] = Append(@, RespEv(r))]
    /\ pc' = [pc EXCEPT ![c] = "got"]
    /\ UNCHANGED <<token, call, outcome, ncalls>>

----------------------------------------------------------------------------
\* login

Login(c) ==
    /\ Free(c)
    /\ \E login \in Logins, password \in Passwords :
           Send(c, [op |-> "login", entity |-> "client",
                    login |-> login, password |-> password],
                Request("POST", Api \o "/sessions", BaseHeaders,
                        Dumps(PyDict(<<<<"email", PyStr(login)>>,
                                       <<"password", PyStr(password)>>>>))))

\* variant: login returns without storing the token
LoginResumeNoStore(c) ==
    /\ Resumes(c, "login")
    /\ LET exc == Lookup(Result(c), <<"access_token">>)
       IN  /\ Finish(c, IF exc # NoError THEN Raised(exc) ELSE Returned(RetTrue))
           /\ UNCHANGED token

LoginResume(c) ==
    /\ Resumes(c, "login")
    /\ LET result == Result(c)
           exc == CallValidateResult(result)
           key == Lookup(result, <<"access_token">>)
       IN  IF exc # NoError THEN Finish(c, Raised(exc)) /\ UNCHANGED token
           ELSE IF key # NoError THEN Finish(c, Raised(key)) /\ UNCHANGED token
           ELSE /\ token' = Get(Get(result, "data"), "access_token").v
                /\ Finish(c, Returned(RetTrue))

----------------------------------------------------------------------------
\* register

Register(c) ==
    /\ Free(c)
    /\ \E nickname \in Nicknames, email \in Emails, password \in Passwords, phone \in Phones :
           Send(c, [op |-> "register", entity |-> "client", nickname |-> nickname,
                    email |-> email, password |-> password, phone |-> phone],
                Request("POST", Api \o "/users", BaseHeaders,
                        Dumps(PyDict(<<<<"nickname", PyStr(nickname)>>,
                                       <<"email", PyStr(email)>>,
                                       <<"password", PyStr(password)>>,
                                       <<"password_confirm", PyStr(password)>>>>))))

\* after the response to /users: phone_key is read and /callme is sent
RegisterUsersResume(c) ==
    /\ Resumes(c, "register")
    /\ LastUrl(c) = Api \o "/users"
    /\ LET result == Result(c)
           exc == CallValidateResult(result)
           key == Lookup(result, <<"phone_key">>)
       IN  IF exc # NoError THEN Finish(c, Raised(exc)) /\ UNCHANGED token
           ELSE IF key # NoError THEN Finish(c, Raised(key)) /\ UNCHANGED token
           ELSE LET phone_key == Get(Get(result, "data"), "phone_key")
                IN  SendNext(c, <<ReqEv(Request("POST", Api \o "/callme", BaseHeaders,
                                    Dumps(PyDict(<<<<"phone_key", phone_key>>,
                                                   <<"phone", PyStr(call[c].phone)>>>>))))>>)

\* variant: code_handler is called a second time for the request body
RegisterCallmeResumeTwice(c) ==
    /\ Resumes(c, "register")
    /\ LastUrl(c) = Api \o "/callme"
    /\ \E code \in HandlerCodes, again \in HandlerCodes :
           SendNext(c, <<CodeEv(code), CodeEv(again),
                         ReqEv(Request("POST", Api \o "/phoneactivate", BaseHeaders,
                                Dumps(PyDict(<<<<"code", PyStr(again)>>,
                                               <<"phone", PyStr(call[c].phone)>>>>))))>>)

\* after the response to /callme: code_handler() is called on the event
\* loop and /phoneactivate is sent with what it returned
RegisterCallmeResume(c) ==
    /\ Resumes(c, "register")
    /\ LastUrl(c) = Api \o "/callme"
    /\ LET exc == CallValidateResult(Result(c))
       IN  IF exc # NoError THEN Finish(c, Raised(exc)) /\ UNCHANGED token
           ELSE \E code \in HandlerCodes :
                    SendNext(c, <<CodeEv(code),
                                  ReqEv(Request("POST", Api \o "/phoneactivate", BaseHeaders,
                                         Dumps(PyDict(<<<<"code", PyStr(code)>>,
                                                        <<"phone", PyStr(call[c].phone)>>>>))))>>)

\* after the response to /phoneactivate: the token is stored
RegisterActivateResume(c) ==
    /\ Resumes(c, "register")
    /\ LastUrl(c) = Api \o "/phoneactivate"
    /\ LET result == Result(c)
           exc == CallValidateResult(result)
           key == Lookup(result, <<"access_token">>)
       IN  IF exc # NoError THEN Finish(c, Raised(exc)) /\ UNCHANGED token
           ELSE IF key # NoError THEN Finish(c, Raised(key)) /\ UNCHANGED token
           ELSE /\ token' = Get(Get(result, "data"), "access_token").v
                /\ Finish(c, Returned(RetTrue))

----------------------------------------------------------------------------
\* Authenticated operations.  Each start takes the identifier and who calls:
\* "client" for a direct call, the entity type for a convenience method.

Limits == {10}
Offsets == {0}

StartLikePost(c, post_id, entity) ==
    Send(c, [op |-> "like_post", entity |-> entity, post_id |-> post_id],
         Request("POST", Api \o "/posts/" \o ToString(post_id) \o "/like",
                 AuthHeaders(token), NoBody))

StartDislikePost(c, post_id, entity) ==
    Send(c, [op |-> "dislike_post", entity |-> entity, post_id |-> post_id],
         Request("DELETE", Api \o "/posts/" \o ToString(post_id) \o "/like",
                 AuthHeaders(token), NoBody))

StartLikeComment(c, comment_id, entity) ==
    Send(c, [op |-> "like_comment", entity |-> entity, comment_id |-> comment_id],
         Request("POST", Api \o "/comments/" \o ToString(comment_id) \o "/like",
                 AuthHeaders(token), NoBody))

StartDislikeComment(c, comment_id, entity) ==
    Send(c, [op |-> "dislike_comment", entity |-> entity, comment_id |-> comment_id],
         Request("DELETE", Api \o "/comments/" \o ToString(comment_id) \o "/like",
                 AuthHeaders(token), NoBody))

StartCommentPost(c, post_id, comment, entity) ==
    Send(c, [op |-> "comment_post", entity |-> entity, post_id |-> post_id,
             comment |-> comment],
         Request("POST", Api \o "/posts/" \o ToString(post_id) \o "/comments",
                 AuthHeaders(token),
                 Dumps(PyDict(<<<<"comment", PyStr(comment)>>>>))))

StartDeleteComment(c, comment_id, entity) ==
    Send(c, [op |-> "delete_comment", entity |-> entity, comment_id |-> comment_id],
         Request("DELETE", Api \o "/posts/comment/" \o ToString(comment_id),
                 AuthHeaders(token), NoBody))

StartGetComments(c, post_id, limit, offset) ==
    Send(c, [op |-> "get_comments", entity |-> "client", post_id |-> post_id,
             limit |-> limit, offset |-> offset],
         Request("GET", Api \o "/posts/" \o ToString(post_id) \o "/comments",
                 AuthHeaders(token),
                 Dumps(PyDict(<<<<"limit", PyInt(limit)>>, <<"offset", PyInt(offset)>>>>))))

StartComplaint(c, post_id, complaint_type, text) ==
    Send(c, [op |-> "complaint", entity |-> "client", post_id |-> post_id,
             complaint_type |-> complaint_type, text |-> text],
         Request("POST", Api \o "/posts/" \o ToString(post_id) \o "/complaint",
                 AuthHeaders(token),
                 Dumps(PyDict(<<<<"type", PyInt(complaint_type)>>,
                                <<"text", IF text = None THEN PyNone ELSE PyStr(text)>>>>))))

StartDeletePost(c, post_id, entity) ==
    Send(c, [op |-> "delete_post", entity |-> entity, post_id |-> post_id],
         Request("DELETE", Api \o "/posts/" \o ToString(post_id),
                 AuthHeaders(token), NoBody))

LikePost(c) == Free(c) /\ \E post_id \in Ids : StartLikePost(c, post_id, "client")
DislikePost(c) == Free(c) /\ \E post_id \in Ids : StartDislikePost(c, post_id, "client")
LikeComment(c) == Free(c) /\ \E comment_id \in Ids : StartLikeComment(c, comment_id, "client")
DislikeComment(c) ==
    Free(c) /\ \E comment_id \in Ids : StartDislikeComment(c, comment_id, "client")
CommentPost(c) ==
    Free(c) /\ \E post_id \in Ids, comment \in Texts :
                   StartCommentPost(c, post_id, comment, "client")
DeleteComment(c) ==
    Free(c) /\ \E comment_id \in Ids : StartDeleteComment(c, comment_id, "client")
GetComments(c) ==
    Free(c) /\ \E post_id \in Ids, limit \in Limits, offset \in Offsets :
                   StartGetComments(c, post_id, limit, offset)
Complaint(c) ==
    Free(c) /\ \E post_id \in Ids, complaint_type \in ComplaintTypes, text \in ComplaintTexts :
                   StartComplaint(c, post_id, complaint_type, text)
DeletePost(c) == Free(c) /\ \E post_id \in Ids : StartDeletePost(c, post_id, "client")

\* Comment(uid, nickname, comment, created_at): the dataclass sets its four
\* fields and nothing else
Comment(uid, nickname, comment, created_at) ==
    [uid |-> uid, nickname |-> nickname, comment |-> comment, created_at |-> created_at]

\* variant: an authenticated operation resets the token when it returns
FlagResumeClearsToken(c, op) ==
    /\ Resumes(c, op)
    /\ Finish(c, Returned(IF call[c].entity = "client" THEN RetTrue ELSE RetNone))
    /\ token' = None

\* after the response, for the operations that end in `return True`; a
\* convenience method awaits the operation and returns nothing
FlagResume(c, op) ==
    /\ Resumes(c, op)
    /\ LET exc == CallValidateResult(Result(c))
       IN  IF exc # NoError THEN Finish(c, Raised(exc))
           ELSE Finish(c, Returned(IF call[c].entity = "client" THEN RetTrue ELSE RetNone))
    /\ UNCHANGED token

LikePostResume(c) == FlagResume(c, "like_post")
DislikePostResume(c) == FlagResume(c, "dislike_post")
LikeCommentResume(c) == FlagResume(c, "like_comment")
DislikeCommentResume(c) == FlagResume(c, "dislike_comment")
DeleteCommentResume(c) == FlagResume(c, "delete_comment")
ComplaintResume(c) == FlagResume(c, "complaint")
DeletePostResume(c) == FlagResume(c, "delete_post")

CommentPostResume(c) ==
    /\ Resumes(c, "comment_post")
    /\ LET result == Result(c)
           exc == CallValidateResult(result)
           key == Lookup(result, <<"id", "nickname", "comment", "created_at">>)
       IN  IF exc # NoError THEN Finish(c, Raised(exc))
           ELSE IF key # NoError THEN Finish(c, Raised(key))
           ELSE LET data == Get(result, "data") IN
                Finish(c, Returned([kind |-> "Comment",
                    items |-> <<Comment(Get(data, "id").v, Get(data, "nickname").v,
                                        Get(data, "comment").v,
                                        Get(data, "created_at").v)>>]))
    /\ UNCHANGED token

GetCommentsResume(c) ==
    /\ Resumes(c, "get_comments")
    /\ LET result == Result(c)
           exc == CallValidateResult(result)
       IN  IF exc # NoError THEN Finish(c, Raised(exc))
           ELSE IF ~Has(result, "data") THEN Finish(c, Raised(Raise("KeyError", <<"data">>)))
           ELSE LET data == Get(result, "data").v IN
                Finish(c, Returned([kind |-> "List",
                    items |-> [i \in 1..Len(data) |->
                                  Comment(Get(data[i], "id").v, Get(data[i], "nickname").v,
                                          Get(data[i], "comment").v,
                                          Get(data[i], "created_at").v)]]))
    /\ UNCHANGED token

----------------------------------------------------------------------------
\* Entities and their convenience methods (types.py)

User(uid, nickname, comment, created_at) ==
    [uid |-> uid, nickname |-> nickname, comment |-> comment, created_at |-> created_at]

Post(uid, url, media, text, user, likes_count, comments_count, created_at) ==
    [uid |-> uid, url |-> url, media |-> media, text |-> text, user |-> user,
     likes_count |-> likes_count, comments_count |-> comments_count,
     created_at |-> created_at]

\* the users and posts a caller constructs
Users == {User(uid, "alice", "sad", ts) : uid \in Ids, ts \in Timestamps}


Posts ==
    {Post(uid, "https://grustnogram.ru/p/x", "media", "sad",
          User(1, "alice", "sad", ts), 0, 0, ts) : uid \in Ids, ts \in Timestamps}

\* the comments a caller holds: those its last call returned
Held(c) == IF pc[c] = "done" THEN outcome[c].ret.items ELSE <<>>

\* a call that raises before any request is built
Fail(c, callrec, exc) ==
    /\ call' = [call EXCEPT ![c] = callrec]
    /\ trace' = [trace EXCEPT ![c] = <<>>]
    /\ pc' = [pc EXCEPT ![c] = "done"]
    /\ outcome' = [outcome EXCEPT ![c] = Raised(exc)]
    /\ ncalls' = ncalls + 1
    /\ UNCHANGED token

\* self._client: the attribute lookup on the entity
HasClient(entity) == "_client" \in DOMAIN entity
NoClient(type) ==
    Raise("AttributeError", <<"'" \o type \o "' object has no attribute '_client'">>)

UserDelete(c) ==
    /\ Free(c)
    /\ \E self \in Users :
           IF HasClient(self) THEN StartDeleteComment(c, self.uid, "User")
           ELSE Fail(c, [op |-> "User.delete", entity |-> "User", uid |-> self.uid],
                     NoClient("User"))

CommentDelete(c) ==
    /\ Free(c)
    /\ \E i \in 1..Len(Held(c)) :
           LET self == Held(c)[i] IN
           IF HasClient(self) THEN StartDeleteComment(c, self.uid, "Comment")
           ELSE Fail(c, [op |-> "Comment.delete", entity |-> "Comment", uid |-> self.uid],
                     NoClient("Comment"))

CommentLike(c) ==
    /\ Free(c)
    /\ \E i \in 1..Len(Held(c)) :
           LET self == Held(c)[i] IN
           IF HasClient(self) THEN StartLikeComment(c, self.uid, "Comment")
           ELSE Fail(c, [op |-> "Comment.like", entity |-> "Comment", uid |-> self.uid],
                     NoClient("Comment"))

CommentDislike(c) ==
    /\ Free(c)
    /\ \E i \in 1..Len(Held(c)) :
           LET self == Held(c)[i] IN
           IF HasClient(self) THEN StartDislikeComment(c, self.uid, "Comment")
           ELSE Fail(c, [op |-> "Comment.dislike", entity |-> "Comment", uid |-> self.uid],
                     NoClient("Comment"))

PostDelete(c) ==
    /\ Free(c)
    /\ \E self \in Posts :
           IF HasClient(self) THEN StartDeletePost(c, self.uid, "Post")
           ELSE Fail(c, [op |-> "Post.delete", entity |-> "Post", uid |-> self.uid],
                     NoClient("Post"))

PostLike(c) ==
    /\ Free(c)
    /\ \E self \in Posts :
           IF HasClient(self) THEN StartLikePost(c, self.uid, "Post")
           ELSE Fail(c, [op |-> "Post.like", entity |-> "Post", uid |-> self.uid],
                     NoClient("Post"))

PostDislike(c) ==
    /\ Free(c)
    /\ \E self \in Posts :
           IF HasClient(self) THEN StartDislikePost(c, self.uid, "Post")
           ELSE Fail(c, [op |-> "Post.dislike", entity |-> "Post", uid |-> self.uid],
                     NoClient("Post"))

PostComment(c) ==
    /\ Free(c)
    /\ \E self \in Posts, text \in Texts :
           IF HasClient(self) THEN StartCommentPost(c, self.uid, text, "Post")
           ELSE Fail(c, [op |-> "Post.comment", entity |-> "Post", uid |-> self.uid,
                         text |-> text],
                     NoClient("Post"))

----------------------------------------------------------------------------
\* One client, used by one caller that awaits each call before the next

Init ==
    /\ token = None
    /\ pc = [c \in Callers |-> "idle"]
    /\ call = [c \in Callers |-> NoCall]
    /\ trace = [c \in Callers |-> <<>>]
    /\ outcome = [c \in Callers |-> Pending]
    /\ ncalls = 0

Step(c) ==
    \/ Login(c) \/ LoginResume(c)
    \/ Register(c) \/ RegisterUsersResume(c) \/ RegisterCallmeResume(c)
    \/ RegisterActivateResume(c)
    \/ LikePost(c) \/ LikePostResume(c)
    \/ DislikePost(c) \/ DislikePostResume(c)
    \/ LikeComment(c) \/ LikeCommentResume(c)
    \/ DislikeComment(c) \/ DislikeCommentResume(c)
    \/ CommentPost(c) \/ CommentPostResume(c)
    \/ DeleteComment(c) \/ DeleteCommentResume(c)
    \/ GetComments(c) \/ GetCommentsResume(c)
    \/ Complaint(c) \/ ComplaintResume(c)
    \/ DeletePost(c) \/ DeletePostResume(c)
    \/ UserDelete(c)
    \/ CommentDelete(c) \/ CommentLike(c) \/ CommentDislike(c)
    \/ PostDelete(c) \/ PostLike(c) \/ PostDislike(c) \/ PostComment(c)
    \/ Respond(c, AnyEnvelope(c))

Next == Step(1)

Spec == Init /\ [][Next]_vars

----------------------------------------------------------------------------
\* One client shared by NumCallers coroutines of one event loop: every step
\* above runs to its next await without interruption, and the steps of
\* different callers interleave.  The server answers with a complete
\* envelope or with a bare error.

ConcEnvelope(c) ==
    {PyDict(<<<<"err", ErrVal(<<>>)>>, <<"data", d>>>>) : d \in DataFor(c)}
        \cup {PyDict(<<<<"err", ErrVal(<<103>>)>>>>)}

StepConc(c) ==
    \/ Login(c) \/ LoginResume(c)
    \/ Register(c) \/ RegisterUsersResume(c) \/ RegisterCallmeResume(c)
    \/ RegisterActivateResume(c)
    \/ LikePost(c) \/ LikePostResume(c)
    \/ DeleteComment(c) \/ DeleteCommentResume(c)
    \/ Respond(c, ConcEnvelope(c))

NextConc == \E c \in Callers : StepConc(c)

SpecConc == Init /\ [][NextConc]_vars

----------------------------------------------------------------------------
\* Vocabulary of the properties

AuthOps == {"like_post", "dislike_post", "like_comment", "dislike_comment",
            "comment_post", "delete_comment", "get_comments", "complaint",
            "delete_post"}
TypedErrors == {"EmailExistsError", "LoginExistsError", "UserNotFoundError",
                "BadCredentialsError", "UnknownError"}

\* the codes of an envelope's error-code list
CodesOf(result) ==
    IF Has(result, "err")
    THEN {Get(result, "err").v[i].v : i \in 1..Len(Get(result, "err").v)}
    ELSE {}

\* result["data"]["access_token"]
AccessToken(result) == Get(Get(result, "data"), "access_token").v

\* the value written after key in a serialised object
JsonGet(tokens, key) ==
    tokens[(CHOOSE i \in 1..(Len(tokens) - 2) :
                tokens[i] = JStr(key) /\ tokens[i + 1] = ":") + 2]

\* json.loads of a message: the envelopes that serialise to it
Loads(message) == {r \in ValidateEnvelopes : Dumps(r) = message}

Completed(c, ops) == pc[c] = "done" /\ call[c].op \in ops
Starts(c, ops) == pc[c] \in {"idle", "done"} /\ pc'[c] = "wait" /\ call'[c].op \in ops

----------------------------------------------------------------------------
\* C1: a login whose response carries code 103 fails with BadCredentials,
\* one whose response carries 102 (and not 100/101) fails with UserNotFound,
\* and in neither case does login return its success flag.
C1_LoginFailsOnErrorCode ==
    \A c \in Callers :
        Completed(c, {"login"}) =>
            LET codes == CodesOf(Result(c)) IN
            /\ (103 \in codes /\ codes \cap {100, 101, 102} = {})
                   => outcome[c].raised.type = "BadCredentialsError"
            /\ (102 \in codes /\ codes \cap {100, 101} = {})
                   => outcome[c].raised.type = "UserNotFoundError"
            /\ (codes \cap {102, 103} # {}) => outcome[c].ret # RetTrue

\* C2: an authenticated operation returns its success value or fails with a
\* typed error, and never returns its success value when the response's
\* error-code list contains a nonzero code.
C2_AuthenticatedCallsFailOnErrorCode ==
    \A c \in Callers :
        Completed(c, AuthOps) =>
            /\ outcome[c].raised.type \in TypedErrors \cup {"none"}
            /\ (CodesOf(Result(c)) \ {0} # {}) => outcome[c].raised.type # "none"

\* C3: after a login that returned the token T, the next authenticated call
\* of the caller sends access-token: T; after a login answered with
\* "tok-abc", like_post(42) issues POST /posts/42/like with that header.
C3_NextCallCarriesLoginToken ==
    [][\A c \in Callers :
          (Completed(c, {"login"}) /\ outcome[c].ret = RetTrue /\ Starts(c, AuthOps)) =>
              LET T == AccessToken(Result(c))
                  sent == Last(trace'[c]).req
              IN  /\ Len(trace'[c]) = 1
                  /\ sent.headers.access_token = T
                  /\ (T = "tok-abc" /\ call'[c].op = "like_post" /\ call'[c].post_id = 42)
                         => /\ sent.method = "POST"
                            /\ sent.url = "https://api.grustnogram.ru/posts/42/like"]_vars

C3_Witness ==
    /\ ncalls = 2
    /\ pc[1] = "wait"
    /\ call[1].op = "like_post" /\ call[1].post_id = 42
    /\ token = "tok-abc"
    /\ trace[1][1].req.url = "https://api.grustnogram.ru/posts/42/like"
    /\ trace[1][1].req.headers.access_token = "tok-abc"

\* has the response an error code: a nonzero code in its error-code list
HasErrorCode(result) == CodesOf(result) \ {0} # {}

\* C4: any failed step aborts register.  Once the response to a step carries
\* an error code, no later request is sent and the code provider is not
\* invoked, the call does not succeed, and code 100 / 101 on step 1 fails
\* the call with EmailExists / LoginExists.
C4_RegisterAbortsOnFailedStep ==
    \A c \in Callers :
        call[c].op = "register" =>
            \A i \in 1..Len(trace[c]) :
                (trace[c][i].ev = "response" /\ HasErrorCode(trace[c][i].result)) =>
                    /\ \A j \in (i + 1)..Len(trace[c]) : trace[c][j].ev = "response"
                    /\ pc[c] = "done" => outcome[c].ret # RetTrue
                    /\ (pc[c] = "done" /\ i = 2 /\ 100 \in CodesOf(trace[c][i].result))
                           => outcome[c].raised.type = "EmailExistsError"
                    /\ (pc[c] = "done" /\ i = 2 /\ 101 \in CodesOf(trace[c][i].result)
                            /\ 100 \notin CodesOf(trace[c][i].result))
                           => outcome[c].raised.type = "LoginExistsError"

\* C5: a register that succeeds has issued POST /users, POST /callme and
\* POST /phoneactivate in that order and nothing else; /callme carries the
\* phone_key of the /users response; code_handler ran once, between the
\* /callme response and the /phoneactivate request, and what it returned is
\* the code of that request; the token is the access_token of the last
\* response.
C5_RegisterFlow ==
    \A c \in Callers :
        (Completed(c, {"register"}) /\ outcome[c].ret = RetTrue) =>
            LET t == trace[c] IN
            /\ [i \in 1..Len(t) |-> t[i].ev] =
                   <<"request", "response", "request", "response",
                     "code_handler", "request", "response">>
            /\ \A i \in {1, 3, 6} : t[i].req.method = "POST"
            /\ t[1].req.url = "https://api.grustnogram.ru/users"
            /\ t[3].req.url = "https://api.grustnogram.ru/callme"
            /\ t[6].req.url = "https://api.grustnogram.ru/phoneactivate"
            /\ JsonGet(t[3].req.data, "phone_key") = JStr(Get(Get(t[2].result, "data"), "phone_key").v)
            /\ JsonGet(t[6].req.data, "code") = JStr(t[5].code)
            /\ token = AccessToken(t[7].result)

C5_Witness ==
    /\ Completed(1, {"register"})
    /\ outcome[1].ret = RetTrue
    /\ Len(trace[1]) = 7
    /\ trace[1][5].code = "1234"
    /\ JsonGet(trace[1][6].req.data, "code") = "\"1234\""
    /\ Get(Get(trace[1][2].result, "data"), "phone_key") = PyStr("pk-2")
    /\ token = "tok-xyz"

\* C6: validation raises by fixed priority, whatever the order of the
\* codes: EmailExists when 100 is present, otherwise the first present of
\* 101 (LoginExists), 102 (UserNotFound), 103 (BadCredentials); an absent or
\* empty list raises nothing.
C6_ValidationPriority ==
    \A c \in Callers :
        Completed(c, {"_validate_result"}) =>
            LET result == call[c].result
                codes == CodesOf(result)
                raised == outcome[c].raised.type
            IN  /\ 100 \in codes => raised = "EmailExistsError"
                /\ (101 \in codes /\ 100 \notin codes) => raised = "LoginExistsError"
                /\ (102 \in codes /\ codes \cap {100, 101} = {})
                       => raised = "UserNotFoundError"
                /\ (103 \in codes /\ codes \cap {100, 101, 102} = {})
                       => raised = "BadCredentialsError"
                /\ codes = {} => raised = "none"

C6_Witness ==
    /\ Completed(1, {"_validate_result"})
    /\ call[1].result = PyDict(<<<<"err", ErrVal(<<103, 100>>)>>>>)
    /\ outcome[1].raised.type = "EmailExistsError"

\* C7: an envelope whose error-code list holds a nonzero code and none of
\* 100..103 raises UnknownError, and the error's message is the serialised
\* envelope: parsing it gives back the err list and the data payload.
C7_UnknownCarriesEnvelope ==
    \A c \in Callers :
        Completed(c, {"_validate_result"}) =>
            LET result == call[c].result
                codes == CodesOf(result)
            IN  (codes \ {0} # {} /\ codes \cap {100, 101, 102, 103} = {}) =>
                    /\ outcome[c].raised.type = "UnknownError"
                    /\ Loads(outcome[c].raised.message) = {result}

C7_Witness ==
    /\ Completed(1, {"_validate_result"})
    /\ call[1].result =
           PyDict(<<<<"data", PyDict(<<<<"message", PyStr("none")>>,
                                       <<"access_token", PyStr("tok-abc")>>>>)>>,
                    <<"err", ErrVal(<<0, 500>>)>>>>)
    /\ outcome[1].raised.message[2] = "\"data\""
    /\ outcome[1].raised.type = "UnknownError"
    /\ Len(outcome[1].raised.message) > 0

\* one step of the clients sharing the token
TokenRaceStep ==
    /\ token' # token =>
           \E c \in Callers :
               /\ pc[c] = "got" /\ call[c].op \in {"login", "register"}
               /\ pc'[c] = "done" /\ outcome'[c].ret = RetTrue
    /\ \A c \in Callers :
           (pc[c] = "got" /\ call[c].op \in {"login", "register"}
                /\ pc'[c] = "done" /\ outcome'[c].ret = RetTrue)
               => token' = AccessToken(Result(c))
    /\ \A c \in Callers :
           Starts(c, AuthOps) =>
               /\ Last(trace'[c]).req.headers.access_token = token
               /\ token' = token

\* C8: under every interleaving, the token is written only by a login or
\* register that completes, each such write stores the access_token of that
\* call's response (so the last write wins), and an authenticated request
\* carries the token held when the request was built.
C8_TokenRace == [][TokenRaceStep]_vars

C8_Witness ==
    /\ pc[1] = "wait" /\ call[1].op = "like_post"
    /\ trace[1][1].req.headers.access_token = None
    /\ Completed(2, {"login"}) /\ outcome[2].ret = RetTrue
    /\ token = "tok-abc"

\* C9: a convenience method of an entity issues the client operation with
\* the entity's own uid, which results in the corresponding HTTP request.
C9_ConvenienceMethodsDelegate ==
    \A c \in Callers :
        Completed(c, {"Comment.like", "Comment.dislike", "Comment.delete",
                      "Post.like", "Post.dislike", "Post.comment", "Post.delete"}) =>
            /\ Len(trace[c]) >= 1
            /\ trace[c][1].ev = "request"
            /\ trace[c][1].req.url \in
                   {Api \o "/comments/" \o ToString(call[c].uid) \o "/like",
                    Api \o "/posts/comment/" \o ToString(call[c].uid),
                    Api \o "/posts/" \o ToString(call[c].uid) \o "/like",
                    Api \o "/posts/" \o ToString(call[c].uid) \o "/comments",
                    Api \o "/posts/" \o ToString(call[c].uid)}

\* C10: the token changes only to the access_token of a login or
\* phone-activation response whose error-code list is absent or empty; a
\* login whose response carries an error code leaves the token unchanged.
C10_TokenOnlyFromCleanResponse ==
    [][token' # token =>
          \E c \in Callers :
              /\ pc[c] = "got"
              /\ LastUrl(c) \in {Api \o "/sessions", Api \o "/phoneactivate"}
              /\ CodesOf(Result(c)) = {}
              /\ Has(Result(c), "data")
              /\ Has(Get(Result(c), "data"), "access_token")
              /\ token' = AccessToken(Result(c))]_vars

====
